---- MODULE Spec2Model ----
(***************************************************************************)
(* Model of the ring-buffer bridge of arachne (src/arachne.c) and of its   *)
(* pass-through variant weave (src/weave.c).                               *)
(*                                                                         *)
(* The bridge attaches to an input ring written by an external producer,   *)
(* creates an output ring, and in every iteration of its main loop waits   *)
(* for a new block, realigns its read cursor when it lags too far behind,  *)
(* copies one block into the working buffer raw, (arachne only)            *)
(* requantizes it and injects bursts, copies it to the output ring and     *)
(* advances the cursors.  Every access to shared memory is one step of the *)
(* bridge, so the producer can move between any two of them.               *)
(*                                                                         *)
(* Spec is the bridge and the producer; SpecInt adds the SIGINT handler.   *)
(* SpecRequant applies the requantizer to 4-byte groups, and SpecLevel the *)
(* level transition of the injection (the switch of arachne.c and          *)
(* cal_bit_shift_prob of src/general_prob_function.c) to single samples.   *)
(* SpecPair applies the requantizer to two groups side by side, SpecClip   *)
(* applies clip, min and max, SpecCells runs the loop over the cells of a  *)
(* burst against a window, SpecSeed follows the seed of the generator and  *)
(* SpecScan takes the loop of one case of the switch turn by turn.         *)
(* SpecOut takes the copy-out byte by byte, SpecFiles counts the files and *)
(* arrays of the burst loop, SpecLive is Spec with a bridge that keeps     *)
(* running, and SpecStop adds the handler statement by statement.          *)
(***************************************************************************)
EXTENDS Integers, Naturals, Sequences, FiniteSets, TLC

(***************************************************************************)
(* Program constants and bounds of the model.                              *)
(***************************************************************************)
MAXBLKS == 16

\* Number of 4-byte groups in one block: BLKSIZE is 32*512*4096 in the
\* source, a multiple of 4; the model keeps a multiple of 4.
NGroups == 1
BLKSIZE == 4 * NGroups

\* The producer stops after having published this many blocks.
MaxProducerBlk == 22

\* Values of the producer's block counter when the bridge attaches.
StartBlks == {0, 19}

\* Values a previous run may have left in the output ring's fields.
LeftoverBlks == {0, 7}
LeftoverRecs == {0, 7}
LeftoverActive == {0, 1}

\* Absolute index of the cell of the burst.
BurstCell == 2

VARIABLES
  prog,              \* "arachne" or "weave": which main() runs
  nfrbs,             \* frbs->count, number of burst files given
  frbs,              \* what the burst files hold, in the order they are given
  env,               \* what the process meets at start-up
  keep,              \* the flag the loop tests and the handler clears
  exitcode,          \* status the process ended with, -1 while it runs
  exitAt,            \* position of main() when the process ended
  idx,               \* index of the burst loop
  lab,               \* inputs and results of the functions applied on their own
  pc,                \* position of the bridge in main()
  flag,              \* local flag of the wait loop
  recNumRead,        \* slot of the input ring to read next
  recNumWrite,       \* slot of the output ring to write next
  currentReadBlock,  \* logical block number to read next
  blkbeg, blkend,    \* injection window of the iteration (arachne)
  raw,               \* working block
  inCurrBlk,         \* BufRead->curr_blk
  inCurrRec,         \* BufRead->curr_rec
  inData,            \* BufRead->data, one block per slot
  inActive,          \* HdrRead->active
  prodPc,            \* position of the external producer
  outCurrBlk,        \* BufWrite->curr_blk
  outCurrRec,        \* BufWrite->curr_rec
  outData,           \* BufWrite->data, one block per slot
  outActive,         \* HdrWrite->active
  \* history of the run, read by the properties only
  snapped,           \* the read cursor was snapped in this iteration
  prodMoved,         \* the producer moved its cursors since this iteration's lag check
  racySnap,          \* the producer moved its cursors during some realignment step
  copied,            \* cursor values used by this iteration's copy
  iterStart,         \* cursor values at the start of this iteration
  prevRun,           \* what the output ring held before start-up (until the first iteration)
  pubLog             \* one record per block published to the output ring

bridgeLocals == <<flag, recNumRead, recNumWrite, currentReadBlock, blkbeg, blkend, raw>>
inRing       == <<inCurrBlk, inCurrRec, inData, inActive>>
outRing      == <<outCurrBlk, outCurrRec, outData, outActive>>
history      == <<snapped, prodMoved, racySnap, copied, iterStart, prevRun, pubLog>>
conf         == <<prog, nfrbs, frbs, env>>
proc         == <<keep, exitcode, exitAt>>
vars == <<conf, proc, idx, lab, pc, bridgeLocals, inRing, prodPc, outRing, history>>

(***************************************************************************)
(* Blocks.  A block is the logical number of the block the producer wrote  *)
(* and its bytes; a slot nobody wrote holds NoBlock.                       *)
(***************************************************************************)
Slots == 0 .. (MAXBLKS - 1)
Offsets == 1 .. BLKSIZE

Payload(b) == [i \in Offsets |-> (b * 53 + i * 85 + 7) % 256]

Block(b) == [id |-> b, bytes |-> Payload(b)]

NoBlock == [id |-> -1, bytes |-> [i \in Offsets |-> 0]]

\* Content of slot s of an input ring into which blocks 0 .. n-1 were written.
SlotAfter(s, n) ==
  IF \E b \in 0 .. (n - 1) : b % MAXBLKS = s
  THEN Block(CHOOSE b \in 0 .. (n - 1) : b % MAXBLKS = s /\ b + MAXBLKS >= n)
  ELSE NoBlock

(***************************************************************************)
(* Bit operations on the non-negative ints the requantizer works on.       *)
(***************************************************************************)
\* x & y and x | y, bit by bit from the low end.  They are functions, so
\* that an operand is worked out once however often it is used.
BitAndOf[x \in Nat, y \in Nat] ==
  IF x = 0 \/ y = 0 THEN 0
  ELSE (IF x % 2 = 1 /\ y % 2 = 1 THEN 1 ELSE 0) + 2 * BitAndOf[x \div 2, y \div 2]

BitAnd(x, y) == BitAndOf[x, y]

BitOrOf[x \in Nat, y \in Nat] ==
  IF x = 0 THEN y
  ELSE IF y = 0 THEN x
  ELSE (IF x % 2 = 1 \/ y % 2 = 1 THEN 1 ELSE 0) + 2 * BitOrOf[x \div 2, y \div 2]

BitOr(x, y) == BitOrOf[x, y]

\* Variant of the left shift that leaves its operand where it is.
ShlNone(x, n) == x

\* x << n
Shl(x, n) == x * (2 ^ n)

\* Variant of the right shift that leaves its operand where it is.
ShrNone(x, n) == x

\* x >> n
Shr(x, n) == x \div (2 ^ n)

\* Variant of temp that packs the two low bits of each byte.
RequantTempLowBits(r0, r1, r2, r3) ==
  BitOr(BitOr(BitAnd(r0, 3), Shl(BitAnd(r1, 3), 2)),
        BitOr(Shl(BitAnd(r2, 3), 4), Shl(BitAnd(r3, 3), 6)))

\* temp of the requantization loop for the group (r0, r1, r2, r3); the sum
\* of shifts is an int, stored into an unsigned char.
RequantTemp(r0, r1, r2, r3) ==
  BitOr(BitOr(BitAnd(Shr(BitAnd(Shl(r0, 2), 192), 6), 3),
              BitAnd(Shr(BitAnd(Shl(r1, 2), 192), 4), 12)),
        BitOr(BitAnd(Shr(BitAnd(Shl(r2, 2), 192), 2), 48),
              BitAnd(Shl(r3, 2), 192))) % 256

\* The 2-bit value the requantizer derives from one byte: bits 5 and 4.
Sample(r) == BitAnd(Shr(BitAnd(Shl(r, 2), 192), 6), 3)

\* Variant of the write-back that stores the values in the order of the
\* bytes they come from.
RequantGroupInOrder(r0, r1, r2, r3) ==
  LET temp == RequantTemp(r0, r1, r2, r3)
  IN  << BitAnd(temp, 3),
         Shr(BitAnd(temp, 12), 2),
         Shr(BitAnd(temp, 48), 4),
         Shr(BitAnd(temp, 192), 6) >>

\* The four bytes written back for one group, positions 0 .. 3.
RequantGroup(r0, r1, r2, r3) ==
  LET temp == RequantTemp(r0, r1, r2, r3)
  IN  << Shr(BitAnd(temp, 192), 6),
         Shr(BitAnd(temp, 48), 4),
         Shr(BitAnd(temp, 12), 2),
         BitAnd(temp, 3) >>

\* The requantization loop over a whole block, in strides of 4.
Requantize(bytes) ==
  [i \in Offsets |->
     LET g == 4 * ((i - 1) \div 4)
     IN  RequantGroup(bytes[g + 1], bytes[g + 2], bytes[g + 3], bytes[g + 4])[i - g]]

(***************************************************************************)
(* Cursor arithmetic of the bridge.  curr_blk and curr_rec are unsigned    *)
(* int, the local cursors int: a mixed expression is evaluated modulo      *)
(* 2^32.  MAXBLKS divides 2^32, so a residue modulo MAXBLKS of a wrapped   *)
(* value is the residue of the unwrapped value, and a wrapped difference   *)
(* of two counters that are less than 2^32 - MAXBLKS apart is at least     *)
(* MAXBLKS.                                                                *)
(***************************************************************************)

\* BufRead->curr_blk - currentReadBlock, as the unsigned the code compares;
\* a negative difference wraps to a value the model reports as MAXBLKS.
Lag(curr_blk, crb) == IF curr_blk >= crb THEN curr_blk - crb ELSE MAXBLKS

\* Variants of the lag test: a threshold one too high, and a threshold of
\* two rings.
LagTooBigOffByOne(curr_blk, crb) == Lag(curr_blk, crb) >= MAXBLKS

LagTooBigTwoRings(curr_blk, crb) == Lag(curr_blk, crb) >= 2 * MAXBLKS - 1

\* BufRead->curr_blk - currentReadBlock >= MAXBLKS - 1
LagTooBig(curr_blk, crb) == Lag(curr_blk, crb) >= MAXBLKS - 1

\* Variant of the snapped slot that does not step back.
SnapRecNoBackstep(curr_rec) == (curr_rec + MAXBLKS) % MAXBLKS

\* (BufRead->curr_rec - 1 + MAXBLKS) % MAXBLKS
SnapRec(curr_rec) == (curr_rec - 1 + MAXBLKS) % MAXBLKS

\* Variant of the snapped block that does not step back.
SnapBlkNoBackstep(curr_blk) == curr_blk

\* BufRead->curr_blk - 1
SnapBlk(curr_blk) == curr_blk - 1

\* (rec + 1) % MAXBLKS
NextRec(rec) == (rec + 1) % MAXBLKS

\* Variant of the block increment that counts twice.
NextBlkTwice(blk) == blk + 2

\* blk + 1
NextBlk(blk) == blk + 1


(***************************************************************************)
(* The level transition of the injection.  A sample at level in lies in    *)
(* the bin ((in - 128) * lvl, (in - 127) * lvl] of a unit Gaussian; the    *)
(* burst adds signal to it.  The model counts positions on that axis in    *)
(* half levels (0.0153825), so that a signal can fall between two levels,  *)
(* and probabilities in parts of probOne.                                  *)
(***************************************************************************)

\* double lvl = 0.030765: one level is two half levels.
lvl == 2

\* The value 1.0 of a probability.
probOne == 1000000000

\* round(probOne * (0.5 + 0.5 * erf(x / sqrt(2)))) for x = g * 0.0153825,
\* g = -400 .. 0.
probTab ==
  <<
     0, 0, 0, 1, 1, 1, 1, 1,
     1, 1, 1, 1, 1, 1, 1, 2,
     2, 2, 2, 2, 3, 3, 3, 3,
     4, 4, 4, 5, 5, 6, 6, 7,
     8, 8, 9, 10, 11, 12, 13, 14,
     15, 17, 18, 20, 22, 24, 26, 28,
     31, 33, 36, 40, 43, 47, 51, 56,
     61, 66, 72, 78, 85, 92, 100, 109,
     118, 128, 139, 151, 164, 178, 193, 209,
     226, 245, 266, 288, 312, 337, 365, 395,
     427, 462, 500, 541, 584, 632, 682, 737,
     796, 859, 928, 1001, 1080, 1165, 1257, 1355,
     1461, 1574, 1696, 1827, 1968, 2119, 2281, 2455,
     2642, 2842, 3056, 3286, 3533, 3797, 4080, 4384,
     4708, 5056, 5428, 5826, 6251, 6707, 7194, 7714,
     8270, 8865, 9500, 10178, 10902, 11675, 12500, 13380,
     14319, 15320, 16388, 17526, 18738, 20031, 21407, 22873,
     24434, 26095, 27863, 29744, 31745, 33873, 36135, 38540,
     41095, 43811, 46695, 49757, 53009, 56460, 60123, 64009,
     68130, 72501, 77134, 82046, 87250, 92764, 98605, 104789,
     111336, 118266, 125599, 133357, 141562, 150239, 159412, 169107,
     179351, 190174, 201604, 213674, 226416, 239864, 254054, 269024,
     284812, 301460, 319010, 337506, 356995, 377525, 399148, 421915,
     445882, 471105, 497645, 525563, 554924, 585796, 618248, 652353,
     688188, 725830, 765362, 806868, 850437, 896161, 944135, 994458,
     1047232, 1102563, 1160562, 1221342, 1285023, 1351727, 1421581, 1494716,
     1571268, 1651379, 1735193, 1822861, 1914538, 2010386, 2110570, 2215261,
     2324637, 2438881, 2558179, 2682728, 2812726, 2948381, 3089905, 3237517,
     3391442, 3551913, 3719168, 3893453, 4075020, 4264129, 4461046, 4666046,
     4879410, 5101426, 5332390, 5572608, 5822389, 6082053, 6351928, 6632348,
     6923658, 7226207, 7540355, 7866471, 8204929, 8556114, 8920418, 9298241,
     9689993, 10096092, 10516962, 10953038, 11404763, 11872587, 12356969, 12858377,
     13377287, 13914182, 14469555, 15043904, 15637739, 16251576, 16885936, 17541353,
     18218363, 18917515, 19639359, 20384458, 21153378, 21946693, 22764984, 23608836,
     24478842, 25375602, 26299718, 27251801, 28232464, 29242326, 30282011, 31352147,
     32453363, 33586296, 34751583, 35949864, 37181781, 38447980, 39749107, 41085808,
     42458732, 43868525, 45315837, 46801314, 48325601, 49889343, 51493181, 53137755,
     54823699, 56551645, 58322222, 60136051, 61993750, 63895929, 65843193, 67836138,
     69875354, 71961422, 74094912, 76276387, 78506398, 80785486, 83114179, 85492995,
     87922438, 90402997, 92935149, 95519356, 98156064, 100845703, 103588686, 106385410,
     109236253, 112141574, 115101714, 118116994, 121187715, 124314155, 127496573, 130735205,
     134030264, 137381940, 140790398, 144255782, 147778208, 151357767, 154994527, 158688527,
     162439780, 166248272, 170113963, 174036781, 178016631, 182053386, 186146890, 190296960,
     194503382, 198765912, 203084277, 207458173, 211887266, 216371191, 220909554, 225501928,
     230147857, 234846854, 239598399, 244401945, 249256911, 254162686, 259118630, 264124072,
     269178309, 274280609, 279430212, 284626326, 289868131, 295154777, 300485387, 305859054,
     311274845, 316731799, 322228927, 327765215, 333339623, 338951086, 344598513, 350280791,
     355996781, 361745324, 367525236, 373335314, 379174335, 385041053, 390934205, 396852511,
     402794671, 408759369, 414745276, 420751044, 426775315, 432816715, 438873861, 444945355,
     451029793, 457125759, 463231830, 469346577, 475468562, 481596343, 487728477, 493863512,
     500000000
  >>

\* double prob(double x): the Gaussian distribution function, by the table
\* and its symmetry; beyond the table it is 0.0 or 1.0 to nine places.
prob(x) ==
  IF x < 1 - Len(probTab) THEN 0
  ELSE IF x <= 0 THEN probTab[x + Len(probTab)]
  ELSE IF x > Len(probTab) - 1 THEN probOne
  ELSE probOne - probTab[Len(probTab) - x]

\* Variant of min with the comparison turned around.
minTurned(x1, x2) == IF x1 > x2 THEN x1 ELSE x2

\* double min(double x1, double x2)
min(x1, x2) == IF x1 < x2 THEN x1 ELSE x2

\* double max(double x1, double x2)
max(x1, x2) == IF x1 > x2 THEN x1 ELSE x2

\* double clip(double x, double x1, double x2)
clip(x, x1, x2) ==
  IF x >= x1 /\ x < x2 THEN x
  ELSE IF x < x1 THEN x1
  ELSE x2

\* The deviates random_deviate() returns are counted in quarters:
\* genrand_real1() draws from the closed interval [0, 1].
devOne == 4
Deviates == 0 .. devOne

\* Numerator and denominator of plvl in the switch of arachne.c (the same
\* expression in each of its 256 cases).
plvlNum(in, m, signal) ==
  prob(min((in - 127) * lvl, (in + m - 127) * lvl - signal))
    - prob(max((in - 128) * lvl, (in + m - 128) * lvl - signal))

plvlDen(in) == prob((in - 127) * lvl) - prob((in - 128) * lvl)

\* if (pval < plvl), the division carried to the other side: the
\* denominator is positive and a deviate is not negative, so a plvl that
\* is not positive accepts nothing.
Accepts(pval, num, den) == num > 0 /\ pval * den < num * devOne

\* What the cell's "int out;" holds when the switch is left: a level the
\* scan assigned, or nothing (the variable has no initializer).
NoOut == [set |-> FALSE, out |-> -1]

\* for (m = top; m > 0; m--) { plvl = ...; if (pval < plvl) {out = in + m; break;}}
\* The scan goes down from top and stops at the first m it accepts: it
\* assigns the greatest m of 1 .. top that is accepted, and nothing when
\* there is none.
Accepted(in, signal, pval, top) ==
  {m \in 1 .. top : Accepts(pval, plvlNum(in, m, signal), plvlDen(in))}

Scan(in, signal, pval, top) ==
  LET A == Accepted(in, signal, pval, top)
  IN  IF A = {} THEN NoOut
      ELSE [set |-> TRUE, out |-> in + (CHOOSE m \in A : \A n \in A : n <= m)]

\* switch (in) { case in: for (m = 255-in; ...) ... break; }
SwitchLevel(in, signal, pval) == Scan(in, signal, pval, 255 - in)

\* The bytes an "int out" that was never assigned can put into a sample:
\* raw[I] = out keeps the low eight bits of whatever the variable holds.
Unassigned == {0, 255}

\* raw[I] = out;
WrittenBack(o) == IF o.set THEN {o.out % 256} ELSE Unassigned

\* The levels the injection can write into a cell that holds in.
CellLevels(in, signal) ==
  UNION {WrittenBack(SwitchLevel(in, signal, pval)) : pval \in Deviates}

\* Numerator of plvl in cal_bit_shift_prob (general_prob_function.c); the
\* denominator is the same for every m of one call.
calNum(in, m, signal) ==
  IF in = 0
  THEN IF in + m = 0
       THEN prob(-127 * lvl - signal)
       ELSE IF in + m = 255
            THEN prob(-127 * lvl) - prob(127 * lvl - signal)
            ELSE prob(min(-127 * lvl, (m - 127) * lvl - signal))
                   - prob((m - 128) * lvl - signal)
  ELSE IF in + m = 255
       THEN prob((in - 127) * lvl) - prob(max((in - 128) * lvl, 127 * lvl - signal))
       ELSE prob(min((in - 127) * lvl, (in + m - 127) * lvl - signal))
              - prob(max((in - 128) * lvl, (in + m - 128) * lvl - signal))

\* for (int m = 0; m <= 255 - in; m++) { plvl = ...;
\*   if (pval < plvl) { pval = plvl; out = in + m; } }
\* pval is the local that starts at 0 and keeps the largest plvl so far:
\* the scan goes up and leaves the first m whose plvl is positive and is
\* not exceeded by any other, and the initial out when no plvl is positive.
calNums(in, signal) == [m \in 0 .. (255 - in) |-> calNum(in, m, signal)]

calScan(in, nums, out) ==
  IF \A m \in DOMAIN nums : nums[m] <= 0 THEN out
  ELSE in + (CHOOSE m \in DOMAIN nums :
               /\ nums[m] > 0
               /\ \A n \in DOMAIN nums : nums[n] <= nums[m]
               /\ \A n \in DOMAIN nums : nums[n] = nums[m] => m <= n)

\* int cal_bit_shift_prob(int in, double lvl, double signal)
cal_bit_shift_prob(in, signal) == calScan(in, calNums(in, signal), in)

(***************************************************************************)
(* Initial state: the process has started, nothing is attached yet.  The   *)
(* producer has published some blocks; the output segments hold whatever a *)
(* previous run left in them.  The cursors of main() are not declared yet: *)
(* they hold -1 until the set-up gives them their initial value.           *)
(***************************************************************************)
NoCopy == [rec |-> -1, blk |-> -1, id |-> -1, outslot |-> -1]

NoPrev == [blk |-> -1, rec |-> -1, active |-> -1]

NoIter == [rec |-> -1, blk |-> -1, outrec |-> -1, outblk |-> -1, npub |-> -1]

\* A burst file: the cells of the burst in the order of the file, each with
\* the absolute index I its row and column give and the signal its flux
\* gives; nnz is the number of cells.
EmptyBurst == [cells |-> << >>]

CellBurst == [cells |-> << [I |-> BurstCell, signal |-> 10 * lvl] >>]

nnz(burst) == Len(burst.cells)

BurstLists == { << >>, <<EmptyBurst, CellBurst>> }

\* What the process meets at start-up: a request for help or for the
\* version, a configuration it cannot use, input segments that do not
\* exist or do not attach, output segments that cannot be created, an
\* output buffer or an output header that does not attach; or none of these.
EnvCases == {"ok", "help", "version", "badconfig", "noinput", "noinattach",
             "nooutput", "nooutattach", "noouthdrattach"}

\* No function is applied on its own.
NoLab == [kind |-> "none"]

Init ==
  /\ prog \in {"arachne", "weave"}
  /\ frbs \in BurstLists
  /\ nfrbs = Len(frbs)
  /\ prog = "weave" => nfrbs = 0
  /\ env \in EnvCases
  /\ keep = 1
  /\ exitcode = -1
  /\ exitAt = "none"
  /\ idx = 0
  /\ lab = NoLab
  /\ pc = "start"
  /\ flag = 0
  /\ recNumRead = -1
  /\ recNumWrite = -1
  /\ currentReadBlock = -1
  /\ blkbeg = 0
  /\ blkend = 0
  /\ raw = NoBlock
  /\ inCurrBlk \in StartBlks
  /\ inCurrRec = inCurrBlk % MAXBLKS
  /\ inData = [s \in Slots |-> SlotAfter(s, inCurrBlk)]
  /\ inActive = 1
  /\ prodPc = "idle"
  /\ outCurrBlk \in LeftoverBlks
  /\ outCurrRec \in LeftoverRecs
  /\ outData = [s \in Slots |-> NoBlock]
  /\ outActive \in LeftoverActive
  /\ snapped = FALSE
  /\ prodMoved = FALSE
  /\ racySnap = FALSE
  /\ copied = NoCopy
  /\ iterStart = NoIter
  /\ prevRun = [blk |-> outCurrBlk, rec |-> outCurrRec, active |-> outActive]
  /\ pubLog = << >>

(***************************************************************************)
(* The external producer.  It writes block curr_blk into slot curr_rec and *)
(* then advances its cursors, the pair in one step.                        *)
(***************************************************************************)
ProducerFill ==
  /\ prodPc = "idle"
  /\ inCurrBlk < MaxProducerBlk
  /\ inData' = [inData EXCEPT ![inCurrRec] = Block(inCurrBlk)]
  /\ prodPc' = "filled"
  /\ UNCHANGED <<conf, proc, idx, lab, pc, bridgeLocals, inCurrBlk, inCurrRec, inActive, outRing, history>>

ProducerPublish ==
  /\ prodPc = "filled"
  /\ inCurrRec' = (inCurrRec + 1) % MAXBLKS
  /\ inCurrBlk' = inCurrBlk + 1
  /\ prodPc' = "idle"
  /\ prodMoved' = TRUE
  /\ racySnap' = (racySnap \/ pc \in {"snaprec", "snapblk"})
  /\ UNCHANGED <<conf, proc, idx, lab, pc, bridgeLocals, inData, inActive, outRing,
                 snapped, copied, iterStart, prevRun, pubLog>>

(***************************************************************************)
(* The bridge: main() of arachne.c and of weave.c.                         *)
(***************************************************************************)

\* static void handler(int _) { keep = 0; exit(_); }, installed by the first
\* statement of main() (arachne.c 91-96, weave.c 57-62): the process ends
\* where it stands, with the number of the signal (SIGINT is 2) as status.
Interrupt ==
  /\ pc # "exited"
  /\ keep' = 0
  /\ exitcode' = 2
  /\ exitAt' = pc
  /\ pc' = "exited"
  /\ UNCHANGED <<conf, idx, lab, bridgeLocals, inRing, prodPc, outRing, history>>

\* --help and --version: exitcode = 0; goto exit (arachne.c 208-222,
\* weave.c 83-96).
ExitRequest ==
  /\ pc = "start"
  /\ env \in {"help", "version"}
  /\ exitcode' = 0
  /\ exitAt' = pc
  /\ pc' = "exited"
  /\ UNCHANGED <<conf, keep, idx, lab, bridgeLocals, inRing, prodPc, outRing, history>>

\* The failures main() tests for: an unusable command line or
\* configuration, shmget() of an input segment, shmat() of the input
\* buffer, shmget() of an output segment, shmat() of the output buffer.
\* Each is log_error() and exit(1), or exitcode = 1 and goto exit
\* (arachne.c 224-348 and 356-386, weave.c 98-182 and 212-242).  The
\* cursors are declared before the first shmget().
SetupFails ==
  /\ pc = "start"
  /\ env \in {"badconfig", "noinput", "noinattach", "nooutput", "nooutattach"}
  /\ IF env = "badconfig"
     THEN UNCHANGED <<recNumRead, recNumWrite, currentReadBlock>>
     ELSE recNumRead' = 0 /\ recNumWrite' = 0 /\ currentReadBlock' = 0
  /\ exitcode' = 1
  /\ exitAt' = pc
  /\ pc' = "exited"
  /\ UNCHANGED <<conf, keep, idx, lab, flag, blkbeg, blkend, raw, inRing, prodPc, outRing,
                 history>>

\* shmat() of the output header returns (Header *)-1 and nothing tests it
\* (arachne.c 379-386, weave.c 235-242): the cursors of the output buffer
\* are reset, then HdrWrite->active = 1 stores through the address -1,
\* which no mapping holds, and the process dies of SIGSEGV (status 128 + 11).
SetupCrash ==
  /\ pc = "start"
  /\ env = "noouthdrattach"
  /\ recNumRead' = 0
  /\ currentReadBlock' = 0
  /\ outCurrRec' = 0
  /\ outCurrBlk' = 0
  /\ recNumWrite' = outCurrRec' % MAXBLKS
  /\ exitcode' = 128 + 11
  /\ exitAt' = pc
  /\ pc' = "exited"
  /\ UNCHANGED <<conf, keep, idx, lab, flag, blkbeg, blkend, raw, inRing, prodPc, outData,
                 outActive, history>>

\* Variant of the set-up that keeps the cursors found in the output ring.
SetupKeepCursors ==
  /\ pc = "start"
  /\ env = "ok"
  /\ recNumRead' = 0
  /\ currentReadBlock' = 0
  /\ recNumWrite' = outCurrRec % MAXBLKS
  /\ outActive' = 1
  /\ pc' = "loop"
  /\ UNCHANGED <<conf, proc, idx, lab, flag, blkbeg, blkend, raw, inRing, prodPc, outCurrBlk, outCurrRec,
                 outData, history>>

\* Declarations of the cursors, attach to the input ring, create and attach
\* the output ring, reset its cursors and raise its active flag
\* (arachne.c 352-391, weave.c 208-248).
Setup ==
  /\ pc = "start"
  /\ env = "ok"
  /\ recNumRead' = 0
  /\ currentReadBlock' = 0
  /\ outCurrRec' = 0
  /\ outCurrBlk' = 0
  /\ recNumWrite' = outCurrRec' % MAXBLKS
  /\ outActive' = 1
  /\ pc' = "loop"
  /\ UNCHANGED <<conf, proc, idx, lab, flag, blkbeg, blkend, raw, inRing, prodPc, outData, history>>

\* while (keep) { int flag = 0;   (arachne.c 397-398, weave.c 250-251)
LoopTest ==
  /\ pc = "loop"
  /\ keep = 1
  /\ flag' = 0
  /\ pc' = "wait"
  /\ iterStart' = [rec |-> recNumRead, blk |-> currentReadBlock, outrec |-> outCurrRec,
                   outblk |-> outCurrBlk, npub |-> Len(pubLog)]
  /\ snapped' = FALSE
  /\ prodMoved' = FALSE
  /\ copied' = NoCopy
  /\ prevRun' = NoPrev
  /\ UNCHANGED <<conf, proc, idx, lab, recNumRead, recNumWrite, currentReadBlock, blkbeg, blkend, raw,
                 inRing, prodPc, outRing, racySnap, pubLog>>

\* Variant of the wait condition that never waits.
MustWaitNever(crb, curr_blk) == FALSE

\* Variant of the wait test that never lets the bridge go on.
MustWaitAlways(crb, curr_blk) == TRUE

\* The condition of the wait loop (arachne.c 399, weave.c 252).
MustWait(crb, curr_blk) == crb = curr_blk

\* One turn of the wait loop: usleep and the first "Waiting..."
\* (arachne.c 399-405, weave.c 252-258).
Poll ==
  /\ pc = "wait"
  /\ MustWait(currentReadBlock, inCurrBlk)
  /\ flag' = 1
  /\ UNCHANGED <<conf, proc, idx, lab, pc, recNumRead, recNumWrite, currentReadBlock, blkbeg, blkend, raw,
                 inRing, prodPc, outRing, history>>

\* The wait loop ends; arachne computes the window of the block from the
\* read cursor as it is before the lag check (arachne.c 406-412, weave.c
\* 259-265).
WaitExit ==
  /\ pc = "wait"
  /\ ~MustWait(currentReadBlock, inCurrBlk)
  /\ IF prog = "arachne"
     THEN /\ blkbeg' = currentReadBlock * BLKSIZE
          /\ blkend' = (currentReadBlock + 1) * BLKSIZE
     ELSE UNCHANGED <<blkbeg, blkend>>
  /\ pc' = "lagcheck"
  /\ UNCHANGED <<conf, proc, idx, lab, flag, recNumRead, recNumWrite, currentReadBlock, raw,
                 inRing, prodPc, outRing, history>>

\* if (BufRead->curr_blk - currentReadBlock >= MAXBLKS - 1)
\* (arachne.c 414, weave.c 267)
LagCheck ==
  /\ pc = "lagcheck"
  /\ pc' = IF LagTooBig(inCurrBlk, currentReadBlock) THEN "snaprec" ELSE "copyin"
  /\ prodMoved' = FALSE
  /\ UNCHANGED <<conf, proc, idx, lab, bridgeLocals, inRing, prodPc, outRing,
                 snapped, racySnap, copied, iterStart, prevRun, pubLog>>

\* recNumRead = (BufRead->curr_rec - 1 + MAXBLKS) % MAXBLKS;
\* (arachne.c 416, weave.c 269)
SnapRecStep ==
  /\ pc = "snaprec"
  /\ recNumRead' = SnapRec(inCurrRec)
  /\ pc' = "snapblk"
  /\ UNCHANGED <<conf, proc, idx, lab, flag, recNumWrite, currentReadBlock, blkbeg, blkend, raw,
                 inRing, prodPc, outRing, history>>

\* currentReadBlock = BufRead->curr_blk - 1;   (arachne.c 417, weave.c 270)
SnapBlkStep ==
  /\ pc = "snapblk"
  /\ currentReadBlock' = SnapBlk(inCurrBlk)
  /\ pc' = "copyin"
  /\ snapped' = TRUE
  /\ UNCHANGED <<conf, proc, idx, lab, flag, recNumRead, recNumWrite, blkbeg, blkend, raw,
                 inRing, prodPc, outRing, prodMoved, racySnap, copied, iterStart, prevRun, pubLog>>

\* Variant of the copy-in that takes the first byte only and leaves the
\* rest of raw as the iteration before left it.
CopyInFirstByte ==
  /\ pc = "copyin"
  /\ raw' = [id |-> inData[recNumRead].id,
             bytes |-> [i \in Offsets |-> IF i = 1 THEN inData[recNumRead].bytes[i]
                                          ELSE raw.bytes[i]]]
  /\ copied' = [rec |-> recNumRead, blk |-> currentReadBlock, id |-> inData[recNumRead].id,
                outslot |-> -1]
  /\ pc' = IF prog = "arachne" THEN "requant" ELSE "advread"
  /\ UNCHANGED <<conf, proc, idx, lab, flag, recNumRead, recNumWrite, currentReadBlock, blkbeg, blkend,
                 inRing, prodPc, outRing, snapped, prodMoved, racySnap, iterStart, prevRun, pubLog>>

\* memcpy(raw, BufRead->data + BLKSIZE * recNumRead, BLKSIZE);
\* (arachne.c 420, weave.c 273)
CopyIn ==
  /\ pc = "copyin"
  /\ raw' = inData[recNumRead]
  /\ copied' = [rec |-> recNumRead, blk |-> currentReadBlock, id |-> inData[recNumRead].id,
                outslot |-> -1]
  /\ pc' = IF prog = "arachne" THEN "requant" ELSE "advread"
  /\ UNCHANGED <<conf, proc, idx, lab, flag, recNumRead, recNumWrite, currentReadBlock, blkbeg, blkend,
                 inRing, prodPc, outRing, snapped, prodMoved, racySnap, iterStart, prevRun, pubLog>>

\* Variant of the requantization that works in the slot of the input ring.
RequantInPlace ==
  /\ pc = "requant"
  /\ inData' = [inData EXCEPT ![copied.rec].bytes = Requantize(inData[copied.rec].bytes)]
  /\ raw' = [raw EXCEPT !.bytes = Requantize(raw.bytes)]
  /\ pc' = "inject"
  /\ UNCHANGED <<conf, proc, idx, lab, flag, recNumRead, recNumWrite, currentReadBlock, blkbeg, blkend,
                 inCurrBlk, inCurrRec, inActive, prodPc, outRing, history>>

\* The requantization loop (arachne).
RequantStep ==
  /\ pc = "requant"
  /\ raw' = [raw EXCEPT !.bytes = Requantize(raw.bytes)]
  /\ pc' = "inject"
  /\ UNCHANGED <<conf, proc, idx, lab, flag, recNumRead, recNumWrite, currentReadBlock, blkbeg, blkend,
                 inRing, prodPc, outRing, history>>

\* The window test of the injection: a cell is left out when this holds.
OutsideWindow(I, beg, end) == (I <= beg) \/ (I >= end)

\* The loop over the cells of one burst (arachne.c 477-1825), from cell i
\* on: the blocks it can leave behind.  A cell outside the window ends the
\* loop (break); a cell inside it is read at I % BLKSIZE, a deviate is
\* drawn, the switch runs, and raw[I] = out writes the level back.  That
\* statement stands at line 1825, after the brace that closes the loop,
\* where I and out are no longer in scope; it is read here as the last
\* statement of the loop's body, the one place where it has a meaning.
RECURSIVE CellLoop(_, _, _, _, _)
CellLoop(bytes, cells, i, beg, end) ==
  IF i > Len(cells) THEN {bytes}
  ELSE IF OutsideWindow(cells[i].I, beg, end) THEN {bytes}
  ELSE UNION { CellLoop([bytes EXCEPT ![(cells[i].I % BLKSIZE) + 1] = out],
                        cells, i + 1, beg, end) :
               out \in CellLevels(bytes[(cells[i].I % BLKSIZE) + 1], cells[i].signal) }

\* if (frbs->count > 0) is false: no burst file was given
\* (arachne.c 442).
InjectSkip ==
  /\ pc = "inject"
  /\ nfrbs = 0
  /\ pc' = "copyout"
  /\ UNCHANGED <<conf, proc, idx, lab, bridgeLocals, inRing, prodPc, outRing, history>>

\* Variant of the empty burst that leaves the loop over the burst files.
EmptyBurstBreaks(i, count) == count

\* if (nnz == 0) { log_warn(...); continue; }: the index of the turn that
\* follows an empty burst (arachne.c 458-461).
EmptyBurstNext(i, count) == i + 1

\* One turn of the loop over the burst files (arachne.c 443-1830): the
\* file is read; with nnz == 0 a warning is logged and the loop continues
\* with the next file, otherwise the cells of the burst are injected.
InjectStep ==
  /\ pc = "inject"
  /\ idx < nfrbs
  /\ IF nnz(frbs[idx + 1]) = 0
     THEN raw' = raw
     ELSE \E bytes \in CellLoop(raw.bytes, frbs[idx + 1].cells, 1, blkbeg, blkend) :
            raw' = [raw EXCEPT !.bytes = bytes]
  /\ LET next == IF nnz(frbs[idx + 1]) = 0 THEN EmptyBurstNext(idx, nfrbs) ELSE idx + 1
     IN  IF next < nfrbs
         THEN idx' = next /\ pc' = pc
         ELSE idx' = 0 /\ pc' = "copyout"
  /\ UNCHANGED <<conf, proc, lab, flag, recNumRead, recNumWrite, currentReadBlock, blkbeg, blkend,
                 inRing, prodPc, outRing, history>>

\* Variant of the copy-out after which both programs go straight to the
\* publication, as weave does (arachne has yet to advance its read cursor).
CopyOutThenPublish ==
  /\ pc = "copyout"
  /\ outData' = [outData EXCEPT ![recNumWrite] = raw]
  /\ copied' = [copied EXCEPT !.outslot = recNumWrite]
  /\ pc' = "pubrec"
  /\ UNCHANGED <<conf, proc, idx, lab, bridgeLocals, inRing, prodPc, outCurrBlk, outCurrRec, outActive,
                 snapped, prodMoved, racySnap, iterStart, prevRun, pubLog>>

\* memcpy(BufWrite->data + BLKSIZE * recNumWrite, raw, BLKSIZE);
\* (arachne.c 1834, weave.c 278)
CopyOut ==
  /\ pc = "copyout"
  /\ outData' = [outData EXCEPT ![recNumWrite] = raw]
  /\ copied' = [copied EXCEPT !.outslot = recNumWrite]
  /\ pc' = IF prog = "arachne" THEN "advread" ELSE "pubrec"
  /\ UNCHANGED <<conf, proc, idx, lab, bridgeLocals, inRing, prodPc, outCurrBlk, outCurrRec, outActive,
                 snapped, prodMoved, racySnap, iterStart, prevRun, pubLog>>

\* Variant of the read advance that moves the slot but not the block.
AdvReadSameBlock ==
  /\ pc = "advread"
  /\ recNumRead' = NextRec(recNumRead)
  /\ currentReadBlock' = currentReadBlock
  /\ pc' = IF prog = "arachne" THEN "pubrec" ELSE "copyout"
  /\ UNCHANGED <<conf, proc, idx, lab, flag, recNumWrite, blkbeg, blkend, raw,
                 inRing, prodPc, outRing, history>>

\* recNumRead = (recNumRead + 1) % MAXBLKS; currentReadBlock++;
\* (arachne.c 1836-1837 after the copy-out, weave.c 275-276 before it)
AdvRead ==
  /\ pc = "advread"
  /\ recNumRead' = NextRec(recNumRead)
  /\ currentReadBlock' = NextBlk(currentReadBlock)
  /\ pc' = IF prog = "arachne" THEN "pubrec" ELSE "copyout"
  /\ UNCHANGED <<conf, proc, idx, lab, flag, recNumWrite, blkbeg, blkend, raw,
                 inRing, prodPc, outRing, history>>

\* Variant of the record update that publishes the slot just written.
PubRecSameSlot ==
  /\ pc = "pubrec"
  /\ outCurrRec' = recNumWrite % MAXBLKS
  /\ pc' = "pubblk"
  /\ UNCHANGED <<conf, proc, idx, lab, bridgeLocals, inRing, prodPc, outCurrBlk, outData, outActive, history>>

\* BufWrite->curr_rec = (recNumWrite + 1) % MAXBLKS;
\* (arachne.c 1839, weave.c 279)
PubRec ==
  /\ pc = "pubrec"
  /\ outCurrRec' = NextRec(recNumWrite)
  /\ pc' = "pubblk"
  /\ UNCHANGED <<conf, proc, idx, lab, bridgeLocals, inRing, prodPc, outCurrBlk, outData, outActive, history>>

\* BufWrite->curr_blk += 1;   (arachne.c 1840, weave.c 280)
PubBlk ==
  /\ pc = "pubblk"
  /\ outCurrBlk' = NextBlk(outCurrBlk)
  /\ pubLog' = Append(pubLog, [blk |-> copied.blk, id |-> copied.id, inslot |-> copied.rec,
                              outslot |-> copied.outslot, outblk |-> outCurrBlk,
                              data |-> outData[copied.outslot]])
  /\ pc' = "advwrite"
  /\ UNCHANGED <<conf, proc, idx, lab, bridgeLocals, inRing, prodPc, outCurrRec, outData, outActive,
                 snapped, prodMoved, racySnap, copied, iterStart, prevRun>>

\* recNumWrite = (recNumWrite + 1) % MAXBLKS; }   (arachne.c 1841, weave.c 281)
AdvWrite ==
  /\ pc = "advwrite"
  /\ recNumWrite' = NextRec(recNumWrite)
  /\ pc' = "loop"
  /\ UNCHANGED <<conf, proc, idx, lab, flag, recNumRead, currentReadBlock, blkbeg, blkend, raw,
                 inRing, prodPc, outRing, history>>

Bridge ==
  \/ ExitRequest \/ SetupFails \/ SetupCrash
  \/ Setup \/ LoopTest \/ Poll \/ WaitExit \/ LagCheck \/ SnapRecStep \/ SnapBlkStep
  \/ CopyIn \/ RequantStep \/ InjectSkip \/ InjectStep \/ CopyOut \/ AdvRead \/ PubRec \/ PubBlk
  \/ AdvWrite

Producer == ProducerFill \/ ProducerPublish

Next == Bridge \/ Producer

Spec == Init /\ [][Next]_vars

\* SIGINT arrives: the handler is entered where main() stands, and its first
\* statement is keep = 0 (arachne.c 92-94, weave.c 58-60).  main() does not
\* run while the handler does.
HandlerEnter ==
  /\ pc \notin {"exited", "handler"}
  /\ keep' = 0
  /\ exitAt' = pc
  /\ pc' = "handler"
  /\ UNCHANGED <<conf, exitcode, idx, lab, bridgeLocals, inRing, prodPc, outRing, history>>

\* Variant of the handler that returns to main() after keep = 0.
HandlerReturns ==
  /\ pc = "handler"
  /\ pc' = exitAt
  /\ UNCHANGED <<conf, proc, idx, lab, bridgeLocals, inRing, prodPc, outRing, history>>

\* exit(_); the second statement of the handler (arachne.c 95, weave.c 61).
HandlerExit ==
  /\ pc = "handler"
  /\ exitcode' = 2
  /\ pc' = "exited"
  /\ UNCHANGED <<conf, keep, exitAt, idx, lab, bridgeLocals, inRing, prodPc, outRing, history>>

\* The runs in which the bridge attaches to a producer that is well ahead
\* and to an output ring with nothing left in it.
InitLive ==
  /\ Init
  /\ inCurrBlk > MAXBLKS
  /\ outCurrBlk = 0 /\ outCurrRec = 0 /\ outActive = 0

\* The bridge is a running process: it goes on as long as it has a step to
\* take.  Nothing is asked of the producer.
SpecLive == InitLive /\ [][Next]_vars /\ WF_vars(Bridge)

\* The same runs with a user who may press Ctrl+C at any moment, the
\* handler taken statement by statement.  A handler that was entered runs
\* to its end; nothing is asked of the main loop or of the producer.
NextStop == Next \/ HandlerEnter \/ HandlerExit

SpecStop == InitLive /\ [][NextStop]_vars /\ WF_vars(HandlerExit)

\* The same program with a user who may press Ctrl+C at any moment.
NextInt == Next \/ Interrupt

SpecInt == Init /\ [][NextInt]_vars

(***************************************************************************)
(* The functions of the program applied on their own.  The bridge is not   *)
(* running; lab holds the arguments, drawn from the sets below, and the    *)
(* results as they are computed.                                           *)
(***************************************************************************)
bridgeVars == <<conf, proc, idx, pc, bridgeLocals, inRing, prodPc, outRing, history>>

BridgeOff ==
  /\ prog = "arachne" /\ frbs = << >> /\ nfrbs = 0 /\ env = "ok"
  /\ keep = 1 /\ exitcode = -1 /\ exitAt = "none"
  /\ idx = 0 /\ pc = "off" /\ flag = 0
  /\ recNumRead = -1 /\ recNumWrite = -1 /\ currentReadBlock = -1
  /\ blkbeg = 0 /\ blkend = 0 /\ raw = NoBlock
  /\ inCurrBlk = 0 /\ inCurrRec = 0 /\ inData = [s \in Slots |-> NoBlock] /\ inActive = 0
  /\ prodPc = "off"
  /\ outCurrBlk = 0 /\ outCurrRec = 0 /\ outData = [s \in Slots |-> NoBlock] /\ outActive = 0
  /\ snapped = FALSE /\ prodMoved = FALSE /\ racySnap = FALSE
  /\ copied = NoCopy /\ iterStart = NoIter /\ prevRun = NoPrev /\ pubLog = << >>

\* Byte values the groups are made of: every value of bits 5 and 4, with
\* and without other bits set.
ByteSamples == {0, 3, 16, 37, 48, 128, 255}

InitRequant ==
  /\ BridgeOff
  /\ lab \in {[kind |-> "group", st |-> "in", g |-> <<r0, r1, r2, r3>>,
               once |-> << >>, twice |-> << >>] :
              r0 \in ByteSamples, r1 \in ByteSamples, r2 \in ByteSamples, r3 \in ByteSamples}

\* The body of the requantization loop on the group (arachne.c 427-435).
ApplyRequant ==
  /\ lab.kind = "group" /\ lab.st = "in"
  /\ lab' = [lab EXCEPT !.st = "once",
                        !.once = RequantGroup(lab.g[1], lab.g[2], lab.g[3], lab.g[4])]
  /\ UNCHANGED bridgeVars

\* The same body on its own result.
ApplyRequantAgain ==
  /\ lab.kind = "group" /\ lab.st = "once"
  /\ lab' = [lab EXCEPT !.st = "twice",
                        !.twice = RequantGroup(lab.once[1], lab.once[2], lab.once[3],
                                               lab.once[4])]
  /\ UNCHANGED bridgeVars

NextRequant == ApplyRequant \/ ApplyRequantAgain

SpecRequant == InitRequant /\ [][NextRequant]_vars

\* Levels of a sample: the ends of the range, their neighbours, the four
\* levels requantized data takes, and levels in the middle.
LevelSamples == {0, 1, 2, 3, 100, 128, 254, 255}

\* Signals, in half levels: none, negative, a fraction of a level, whole
\* levels, ten levels, and 1000 (1000 / 0.0153825, fluxes[i] / sigma being
\* measured on the axis of the Gaussian).
SignalSamples == {-2, 0, 1, 2, 3, 20, 65009}

InitLevel ==
  /\ BridgeOff
  /\ lab \in {[kind |-> "level", st |-> "in", in |-> in, signal1 |-> s1, signal2 |-> s2,
               pval |-> pval, sw1 |-> -1, sw2 |-> -1, cal1 |-> -1, cal2 |-> -1] :
              in \in LevelSamples, pval \in Deviates,
              s1 \in SignalSamples, s2 \in SignalSamples}
  /\ lab.signal1 <= lab.signal2

\* The switch of arachne.c and the write-back raw[I] = out, for a cell that
\* holds in, once with each of the two signals and the same deviate.
ApplySwitch ==
  /\ lab.kind = "level" /\ lab.st = "in"
  /\ \E w1 \in WrittenBack(SwitchLevel(lab.in, lab.signal1, lab.pval)),
        w2 \in WrittenBack(SwitchLevel(lab.in, lab.signal2, lab.pval)) :
        lab' = [lab EXCEPT !.st = "switch", !.sw1 = w1, !.sw2 = w2]
  /\ UNCHANGED bridgeVars

\* cal_bit_shift_prob() for the same level and the same two signals.
ApplyCal ==
  /\ lab.kind = "level" /\ lab.st = "switch"
  /\ lab' = [lab EXCEPT !.st = "both",
                        !.cal1 = cal_bit_shift_prob(lab.in, lab.signal1),
                        !.cal2 = cal_bit_shift_prob(lab.in, lab.signal2)]
  /\ UNCHANGED bridgeVars

NextLevel == ApplySwitch \/ ApplyCal

SpecLevel == InitLevel /\ [][NextLevel]_vars

\* Arguments of clip, min and max: every order of three numbers, equal
\* ones included.
ClipSamples == -2 .. 2

InitClip ==
  /\ BridgeOff
  /\ lab \in {[kind |-> "clip", st |-> "in", x |-> x, lo |-> lo, hi |-> hi,
               clipped |-> 0, lesser |-> 0, greater |-> 0] :
              x \in ClipSamples, lo \in ClipSamples, hi \in ClipSamples}

\* clip(x, lo, hi)
ApplyClip ==
  /\ lab.kind = "clip" /\ lab.st = "in"
  /\ lab' = [lab EXCEPT !.st = "clip", !.clipped = clip(lab.x, lab.lo, lab.hi)]
  /\ UNCHANGED bridgeVars

\* min(lo, hi) and max(lo, hi)
ApplyMinMax ==
  /\ lab.kind = "clip" /\ lab.st = "clip"
  /\ lab' = [lab EXCEPT !.st = "minmax", !.lesser = min(lab.lo, lab.hi),
                        !.greater = max(lab.lo, lab.hi)]
  /\ UNCHANGED bridgeVars

NextClip == ApplyClip \/ ApplyMinMax

SpecClip == InitClip /\ [][NextClip]_vars

\* The loop over the cells of one burst, on its own: bursts of up to two
\* cells in ascending order of I, placed anywhere in the first three
\* blocks, met by the window of each of these blocks.  Every sample holds
\* CellBefore, a level the injection always moves away from.
CellBlocks == 0 .. 2

CellBefore == 100

CellPlaces == 0 .. (3 * BLKSIZE - 1)

CellLists ==
  {<< >>}
    \cup {<<[I |-> a, signal |-> 10 * lvl]>> : a \in CellPlaces}
    \cup {<<[I |-> a, signal |-> 10 * lvl], [I |-> a + d, signal |-> 10 * lvl]>> :
          a \in 0 .. (2 * BLKSIZE - 1), d \in 1 .. BLKSIZE}

InitCells ==
  /\ BridgeOff
  /\ lab \in {[kind |-> "cells", st |-> "in", cells |-> c, blk |-> b,
               beg |-> 0, end |-> 0,
               bytes |-> [p \in 1 .. BLKSIZE |-> CellBefore]] :
              c \in CellLists, b \in CellBlocks}

\* long blkbeg = (long)currentReadBlock * (long)BLKSIZE;
\* long blkend = (long)(currentReadBlock + 1) * (long)BLKSIZE;
ApplyWindow ==
  /\ lab.kind = "cells" /\ lab.st = "in"
  /\ lab' = [lab EXCEPT !.st = "window", !.beg = lab.blk * BLKSIZE,
                        !.end = (lab.blk + 1) * BLKSIZE]
  /\ UNCHANGED bridgeVars

\* for (int i = 0; i < nnz; ++i) { ... }
ApplyCellLoop ==
  /\ lab.kind = "cells" /\ lab.st = "window"
  /\ \E bytes \in CellLoop(lab.bytes, lab.cells, 1, lab.beg, lab.end) :
       lab' = [lab EXCEPT !.st = "done", !.bytes = bytes]
  /\ UNCHANGED bridgeVars

NextCells == ApplyWindow \/ ApplyCellLoop

SpecCells == InitCells /\ [][NextCells]_vars

\* The seed of the generator, on its own: turns of the loop over the burst
\* files (in any iteration of the main loop), each with some cells inside
\* the window, while the clock of time(NULL) may go on between two turns.
MaxTurns == 3

MaxCells == 2

ClockTimes == 1 .. 3

InitSeed ==
  /\ BridgeOff
  /\ lab \in {[kind |-> "seed", st |-> "turn", time |-> t, seed |-> 0,
               seedings |-> 0, draws |-> 0, turns |-> 0, left |-> 0] :
              t \in ClockTimes}

\* time(NULL) has gone on by a second.
ClockTick ==
  /\ lab.kind = "seed"
  /\ lab.time + 1 \in ClockTimes
  /\ lab' = [lab EXCEPT !.time = lab.time + 1]
  /\ UNCHANGED bridgeVars

\* long seed = set_seed(); at the head of a turn of the loop over the burst
\* files, followed by the cells of this burst that fall into the window.
BurstTurn ==
  /\ lab.kind = "seed" /\ lab.st = "turn"
  /\ lab.turns < MaxTurns
  /\ \E n \in 0 .. MaxCells :
       lab' = [lab EXCEPT !.seed = -lab.time, !.turns = lab.turns + 1,
                          !.left = n, !.st = IF n = 0 THEN "turn" ELSE "cell"]
  /\ UNCHANGED bridgeVars

\* double pval = random_deviate(&seed);
\* if (*seed < 0) { init_genrand(-(*seed)); *seed = 1; }
\* return genrand_real1();
RandomDeviate ==
  /\ lab.kind = "seed" /\ lab.st = "cell"
  /\ lab' = [lab EXCEPT
               !.seed = IF lab.seed < 0 THEN 1 ELSE lab.seed,
               !.seedings = IF lab.seed < 0 THEN lab.seedings + 1 ELSE lab.seedings,
               !.draws = lab.draws + 1,
               !.left = lab.left - 1,
               !.st = IF lab.left = 1 THEN "turn" ELSE "cell"]
  /\ UNCHANGED bridgeVars

NextSeed == ClockTick \/ BurstTurn \/ RandomDeviate

SpecSeed == InitSeed /\ [][NextSeed]_vars

\* The loop of one case of the switch, turn by turn.
ScanLevels == {0, 100, 253, 255}

ScanSignals == {0, 3, 20}

InitScan ==
  /\ BridgeOff
  /\ lab \in {[kind |-> "scan", st |-> "switch", in |-> in, signal |-> s,
               pval |-> p, m |-> 0, out |-> NoOut, assigns |-> 0] :
              in \in ScanLevels, s \in ScanSignals, p \in Deviates}

\* Variant of the loop that goes on after an accepted m.
ScanGoesOnAfterHit(m, hit) == m - 1 > 0

\* Whether the loop takes another turn after the one for m: not after
\* break, and m-- must leave m > 0.
ScanGoesOn(m, hit) == ~hit /\ m - 1 > 0

\* case in: for (m = 255-in; m > 0; ...)
ScanEnter ==
  /\ lab.kind = "scan" /\ lab.st = "switch"
  /\ lab' = [lab EXCEPT !.m = 255 - lab.in,
                        !.st = IF 255 - lab.in > 0 THEN "turn" ELSE "left"]
  /\ UNCHANGED bridgeVars

\* plvl = ...; if (pval < plvl) {out = in + m; break;}  and then m--
ScanTurn ==
  /\ lab.kind = "scan" /\ lab.st = "turn"
  /\ LET hit == Accepts(lab.pval, plvlNum(lab.in, lab.m, lab.signal), plvlDen(lab.in))
     IN  lab' = [lab EXCEPT
                   !.out = IF hit THEN [set |-> TRUE, out |-> lab.in + lab.m] ELSE lab.out,
                   !.assigns = IF hit THEN lab.assigns + 1 ELSE lab.assigns,
                   !.m = IF hit THEN lab.m ELSE lab.m - 1,
                   !.st = IF ScanGoesOn(lab.m, hit) THEN "turn" ELSE "left"]
  /\ UNCHANGED bridgeVars

NextScan == ScanEnter \/ ScanTurn

SpecScan == InitScan /\ [][NextScan]_vars

\* The body of the requantization loop on two groups side by side, made of
\* bytes that differ in bits 7:6 only, in bits 5:4 only, or in both.
PairSamples == {0, 16, 80, 255}

InitPair ==
  /\ BridgeOff
  /\ lab \in {[kind |-> "pair", st |-> "in",
               g |-> <<r0, r1, r2, r3>>, h |-> <<q0, q1, q2, q3>>,
               outg |-> << >>, outh |-> << >>] :
              r0 \in PairSamples, r1 \in PairSamples, r2 \in PairSamples, r3 \in PairSamples,
              q0 \in PairSamples, q1 \in PairSamples, q2 \in PairSamples, q3 \in PairSamples}

\* The body of the requantization loop on each of the two groups
\* (arachne.c 427-435).
ApplyRequantPair ==
  /\ lab.kind = "pair" /\ lab.st = "in"
  /\ lab' = [lab EXCEPT !.st = "out",
                        !.outg = RequantGroup(lab.g[1], lab.g[2], lab.g[3], lab.g[4]),
                        !.outh = RequantGroup(lab.h[1], lab.h[2], lab.h[3], lab.h[4])]
  /\ UNCHANGED bridgeVars

NextPair == ApplyRequantPair

SpecPair == InitPair /\ [][NextPair]_vars

\* The output side of an iteration with the memcpy taken byte by byte, as a
\* reader of the output ring can see it: slot s of the ring holds the
\* number of the block last written to it and how many of its bytes have
\* arrived (the rest is what the slot held before).
MaxOutBlks == 20

NoOutSlot == [id |-> -1, n |-> 0]

InitOut ==
  /\ BridgeOff
  /\ lab = [kind |-> "out", st |-> "memcpy", recNumWrite |-> 0,
            curr_rec |-> 0, curr_blk |-> 0, data |-> [s \in Slots |-> NoOutSlot]]

\* Variant of the memcpy that returns after its first byte.
CopyDoneEarly(n) == n >= 1

\* memcpy has written the whole block.
CopyDone(n) == n = BLKSIZE

\* memcpy(BufWrite->data + BLKSIZE * recNumWrite, raw, BLKSIZE), one byte.
OutCopyByte ==
  /\ lab.kind = "out" /\ lab.st = "memcpy"
  /\ lab.curr_blk < MaxOutBlks
  /\ LET slot == lab.data[lab.recNumWrite]
         n    == IF slot.id = lab.curr_blk THEN slot.n ELSE 0
     IN  /\ ~CopyDone(n)
         /\ lab' = [lab EXCEPT !.data[lab.recNumWrite] = [id |-> lab.curr_blk, n |-> n + 1]]
  /\ UNCHANGED bridgeVars

\* BufWrite->curr_rec = (recNumWrite + 1) % MAXBLKS;
OutPubRec ==
  /\ lab.kind = "out" /\ lab.st = "memcpy"
  /\ lab.data[lab.recNumWrite].id = lab.curr_blk
  /\ CopyDone(lab.data[lab.recNumWrite].n)
  /\ lab' = [lab EXCEPT !.st = "blk", !.curr_rec = NextRec(lab.recNumWrite)]
  /\ UNCHANGED bridgeVars

\* BufWrite->curr_blk += 1;
OutPubBlk ==
  /\ lab.kind = "out" /\ lab.st = "blk"
  /\ lab' = [lab EXCEPT !.st = "adv", !.curr_blk = NextBlk(lab.curr_blk)]
  /\ UNCHANGED bridgeVars

\* recNumWrite = (recNumWrite + 1) % MAXBLKS;
OutAdvWrite ==
  /\ lab.kind = "out" /\ lab.st = "adv"
  /\ lab' = [lab EXCEPT !.st = "memcpy", !.recNumWrite = NextRec(lab.recNumWrite)]
  /\ UNCHANGED bridgeVars

NextOut == OutCopyByte \/ OutPubRec \/ OutPubBlk \/ OutAdvWrite

SpecOut == InitOut /\ [][NextOut]_vars

\* The files and arrays of the loop over the burst files, on their own:
\* the burst list gives nnz of each file; open counts the FILE handles that
\* are open and arrays the malloc'ed arrays that are not freed.
MaxIters == 3

NnzLists ==
  {<< >>} \cup {<<a>> : a \in 0 .. 2} \cup {<<a, b>> : a \in 0 .. 2, b \in 0 .. 2}

InitFiles ==
  /\ BridgeOff
  /\ lab \in {[kind |-> "files", st |-> "top", nnzs |-> l, iter |-> 0, idx |-> 0,
               open |-> 0, arrays |-> 0] : l \in NnzLists}

\* for (idx ...) { FILE *bf = fopen(frbs->filename[idx], "r"); fread(...);
FileOpen ==
  /\ lab.kind = "files" /\ lab.st = "top"
  /\ lab.iter < MaxIters
  /\ lab.idx < Len(lab.nnzs)
  /\ lab' = [lab EXCEPT !.st = "header", !.open = lab.open + 1]
  /\ UNCHANGED bridgeVars

\* if (nnz == 0) { log_warn(...); continue; }
FileEmpty ==
  /\ lab.kind = "files" /\ lab.st = "header"
  /\ lab.nnzs[lab.idx + 1] = 0
  /\ lab' = [lab EXCEPT !.st = "top", !.idx = lab.idx + 1]
  /\ UNCHANGED bridgeVars

\* rows, cols and fluxes are malloc'ed and read; the cells are injected.
FileArrays ==
  /\ lab.kind = "files" /\ lab.st = "header"
  /\ lab.nnzs[lab.idx + 1] # 0
  /\ lab' = [lab EXCEPT !.st = "cells", !.arrays = lab.arrays + 3]
  /\ UNCHANGED bridgeVars

\* free(rows); free(cols); free(fluxes); fclose(bf); }
FileRelease ==
  /\ lab.kind = "files" /\ lab.st = "cells"
  /\ lab' = [lab EXCEPT !.st = "top", !.idx = lab.idx + 1,
                        !.arrays = lab.arrays - 3, !.open = lab.open - 1]
  /\ UNCHANGED bridgeVars

\* The loop over the files is done; the block is copied out and published
\* and the next iteration starts.
FilesPublish ==
  /\ lab.kind = "files" /\ lab.st = "top"
  /\ lab.iter < MaxIters
  /\ lab.idx = Len(lab.nnzs)
  /\ lab' = [lab EXCEPT !.iter = lab.iter + 1, !.idx = 0]
  /\ UNCHANGED bridgeVars

NextFiles == FileOpen \/ FileEmpty \/ FileArrays \/ FileRelease \/ FilesPublish

SpecFiles == InitFiles /\ [][NextFiles]_vars

(***************************************************************************)
(* Properties of the bridge.                                               *)
(***************************************************************************)

\* An iteration has run to its end and the next one has not started.
IterationDone == pc = "loop" /\ copied.rec # -1

LastPub == pubLog[Len(pubLog)]

\* C1: at every iteration boundary, after any number of iterations, the
\* read slot is the read block modulo MAXBLKS, provided the producer did
\* not move its cursors during a realignment step (the producer of the
\* model always has curr_rec = curr_blk mod MAXBLKS).
ReadCursorInvariant ==
  (pc = "loop" /\ ~racySnap) => recNumRead = currentReadBlock % MAXBLKS

\* A boundary reached by an iteration that realigned, after earlier ones.
ReadCursorWitness ==
  /\ pc = "loop" /\ ~racySnap /\ snapped
  /\ Len(pubLog) >= 2
  /\ recNumRead = currentReadBlock % MAXBLKS

\* C2: at every iteration boundary the output ring has curr_rec = curr_blk
\* mod MAXBLKS, recNumWrite = curr_rec, and the k-th published block
\* (from 0) went to output slot k mod MAXBLKS.
WriteCursorInvariant ==
  pc = "loop" =>
    /\ outCurrRec = outCurrBlk % MAXBLKS
    /\ recNumWrite = outCurrRec
    /\ \A k \in 1 .. Len(pubLog) : pubLog[k].outslot = (k - 1) % MAXBLKS

\* A boundary after the output ring has wrapped around.
WriteCursorWitness ==
  /\ pc = "loop"
  /\ Len(pubLog) > MAXBLKS
  /\ LastPub.outslot = (Len(pubLog) - 1) % MAXBLKS
  /\ outCurrBlk = Len(pubLog)

\* C3: a realignment step during which the producer's cursors do not move
\* (so the lag at the check was at least MAXBLKS - 1) ends with a lag of
\* exactly 1, before the block is copied.
RealignBoundsLag ==
  [][(pc = "snapblk" /\ pc' = "copyin" /\ ~prodMoved)
       => /\ Lag(inCurrBlk, currentReadBlock) >= MAXBLKS - 1
          /\ Lag(inCurrBlk', currentReadBlock') = 1]_vars

\* A realignment that started from a lag of at least MAXBLKS + 2.
RealignBoundsLagWitness ==
  /\ pc = "copyin" /\ snapped /\ ~prodMoved
  /\ inCurrBlk - iterStart.blk >= MAXBLKS + 2
  /\ Lag(inCurrBlk, currentReadBlock) = 1

\* The steps of C4 that do not depend on the producer: the lag check takes
\* the realignment branch exactly for a lag of at least MAXBLKS - 1, the
\* branch snaps the cursor to the producer's values minus one, and no other
\* step before the copy touches the read cursor.
TriggerSteps ==
  /\ (pc = "lagcheck" /\ pc' # pc) =>
        /\ (pc' = "snaprec") <=> (Lag(inCurrBlk, currentReadBlock) >= MAXBLKS - 1)
        /\ (pc' = "copyin") <=> (Lag(inCurrBlk, currentReadBlock) \in 1 .. (MAXBLKS - 2))
  /\ (pc = "snaprec" /\ pc' # pc) => recNumRead' = (inCurrRec + MAXBLKS - 1) % MAXBLKS
  /\ (pc = "snapblk" /\ pc' # pc) => (currentReadBlock' = inCurrBlk - 1 /\ snapped')
  /\ (pc \in {"wait", "lagcheck", "copyin"}) =>
        (UNCHANGED <<recNumRead, currentReadBlock>> /\ snapped' = snapped)
  /\ (pc = "copyin" /\ pc' # pc /\ ~snapped) =>
        /\ currentReadBlock = iterStart.blk
        /\ recNumRead = iterStart.rec
        /\ copied'.rec = recNumRead /\ copied'.blk = currentReadBlock

CleanBefore == \A k \in 1 .. (Len(pubLog) - 1) : pubLog[k].id = pubLog[k].blk

\* C5: the consumer has read the blocks in order and pauses; its next
\* iteration sees the producer 20 blocks ahead, the producer's cursors
\* staying there during the iteration: it realigns, copies the slot holding
\* block producer_block - 1, which the producer has not overwritten,
\* publishes it and ends with currentReadBlock = producer_block; none of
\* the skipped blocks is published.
OverrunScenario ==
  (IterationDone /\ ~prodMoved /\ CleanBefore /\ inCurrBlk - iterStart.blk = 20) =>
    /\ snapped
    /\ copied.blk = inCurrBlk - 1
    /\ copied.rec = (inCurrBlk - 1) % MAXBLKS
    /\ copied.id = inCurrBlk - 1
    /\ inData[copied.rec].id = inCurrBlk - 1
    /\ LastPub.id = inCurrBlk - 1
    /\ outData[LastPub.outslot].id = inCurrBlk - 1
    /\ currentReadBlock = inCurrBlk
    /\ \A k \in 1 .. Len(pubLog) : pubLog[k].id \notin iterStart.blk .. (inCurrBlk - 2)

OverrunWitness ==
  /\ IterationDone /\ ~prodMoved /\ CleanBefore /\ inCurrBlk - iterStart.blk = 20
  /\ Len(pubLog) >= 2
  /\ snapped
  /\ currentReadBlock = inCurrBlk

\* Parts of C6 that hold whatever the producer does: an iteration publishes
\* exactly one block, the one it copied, the n-th publication is output
\* block n - 1, and the read cursor used for the copies increases strictly.
OneBlockPerIteration ==
  /\ \A k \in 1 .. Len(pubLog) :
        /\ pubLog[k].outblk = k - 1
        /\ pubLog[k].data.id = pubLog[k].id
  /\ \A j, k \in 1 .. Len(pubLog) : j < k => pubLog[j].blk < pubLog[k].blk
  /\ iterStart.npub # -1 =>
        /\ Len(pubLog) \in {iterStart.npub, iterStart.npub + 1}
        /\ Len(pubLog) = outCurrBlk
        /\ (pc \in {"advwrite", "loop"}) <=> (Len(pubLog) = iterStart.npub + 1)
        /\ Len(pubLog) = iterStart.npub + 1 =>
              (LastPub.id = copied.id /\ LastPub.blk = copied.blk /\ outData[LastPub.outslot] = LastPub.data)

WaitingGuard ==
  /\ [](pc = "copyin" => inCurrBlk # currentReadBlock)
  /\ [][(pc = "wait" /\ inCurrBlk = currentReadBlock) =>
          (pc' = "wait" /\ UNCHANGED <<recNumRead, currentReadBlock, raw, outRing>>)]_vars

\* The bridge has caught up with the producer and polls.
WaitingGuardWitness ==
  /\ pc = "wait" /\ flag = 1
  /\ inCurrBlk = currentReadBlock
  /\ Len(pubLog) >= 1

\* C8: a completed iteration has advanced the output ring's curr_blk by 1
\* and its curr_rec by 1 modulo MAXBLKS, and has left the read cursor one
\* past the values its copy used.
SteadyStateStep ==
  IterationDone =>
    /\ outCurrBlk = iterStart.outblk + 1
    /\ outCurrRec = (iterStart.outrec + 1) % MAXBLKS
    /\ currentReadBlock = copied.blk + 1
    /\ recNumRead = (copied.rec + 1) % MAXBLKS

\* The end of an iteration that realigned and wrapped the read slot.
SteadyStateWitness ==
  /\ IterationDone /\ snapped
  /\ copied.rec = MAXBLKS - 1 /\ recNumRead = 0
  /\ outCurrBlk >= 2

\* C9: when the main loop is first entered the output ring has curr_blk =
\* 0, curr_rec = 0 and active = 1 whatever it held before, the local
\* cursors are 0 and nothing has been published.
FirstEntry == pc = "loop" /\ iterStart = NoIter

InitialState ==
  FirstEntry =>
    /\ outCurrBlk = 0 /\ outCurrRec = 0 /\ outActive = 1
    /\ recNumRead = 0 /\ recNumWrite = 0 /\ currentReadBlock = 0
    /\ pubLog = << >>

\* The loop is entered after a previous run left non-zero cursors and a
\* cleared active flag.
InitialStateWitness ==
  /\ FirstEntry
  /\ prevRun.blk # 0 /\ prevRun.rec # 0 /\ prevRun.active = 0
  /\ outCurrBlk = 0 /\ outCurrRec = 0 /\ outActive = 1

\* C10: no step of the bridge changes the input ring; requantization and
\* injection change nothing but the working block.
InputReadOnly ==
  [][/\ UNCHANGED inRing \/ ~Bridge
     /\ (pc \in {"requant", "inject"} /\ UNCHANGED prodPc) =>
           UNCHANGED <<inRing, outRing, recNumRead, recNumWrite, currentReadBlock>>]_vars

\* A block that requantization and injection changed has been published
\* and its input slot still holds what the producer wrote.
InputReadOnlyWitness ==
  /\ IterationDone /\ prog = "arachne" /\ nfrbs > 0
  /\ copied.id = 0
  /\ inData[copied.rec] = Block(0)
  /\ LastPub.data.bytes # Block(0).bytes
  /\ LastPub.data.bytes # Requantize(Block(0).bytes)

\* The positions of an iteration after its copy into the working buffer
\* has been made and before the record of the output ring has moved.
MidCopy == {"requant", "inject", "copyout", "advread", "pubrec"}

\* C11: a process that ends on SIGINT does not end between the start of
\* the copy of a block and the advance of the output cursor for that block:
\* the iteration in progress is finished first.
CancelAtBoundary == (pc = "exited" /\ exitcode = 2) => exitAt \notin MidCopy

\* The start-up cases of C12: the input segments do not exist, the output
\* segments cannot be created, or one of them cannot be attached.
SegmentFailures == {"noinput", "nooutput", "nooutattach", "noouthdrattach"}

\* C12: when the input segments do not exist or the output segments cannot
\* be created or attached, the process never enters the main loop (no
\* block is read or published) and ends with status 1; a request for help
\* or for the version ends with status 0.
FatalSetup ==
  /\ env \in SegmentFailures =>
       /\ pc \in {"start", "exited"}
       /\ copied = NoCopy /\ pubLog = << >>
       /\ pc = "exited" => exitcode = 1
  /\ (env \in {"help", "version"} /\ pc = "exited") => exitcode = 0

AppliedTwice == lab.kind = "group" /\ lab.st = "twice"

\* C13 as stated: applying the requantizer twice to a 4-byte group of byte
\* values 0..255 yields the original four bytes.
Involutory == AppliedTwice => lab.twice = lab.g

\* C13: the requantizer is not its own inverse.  One application leaves
\* four values in 0..3, a second application leaves four zeros, and the
\* result of two applications is the original group only when that group
\* is four zeros.
RequantTwiceIsZero ==
  AppliedTwice =>
    /\ \A j \in 1 .. 4 : lab.once[j] \in 0 .. 3
    /\ lab.twice = <<0, 0, 0, 0>>
    /\ (lab.twice = lab.g) <=> (lab.g = <<0, 0, 0, 0>>)

\* The transform was applied twice to a group whose first application left
\* no zero at all.
RequantTwiceWitness ==
  /\ AppliedTwice
  /\ lab.g = <<255, 16, 37, 48>>
  /\ \A j \in 1 .. 4 : lab.once[j] # 0
  /\ lab.twice # lab.g

LevelsComputed == lab.kind = "level" /\ lab.st = "both"

\* C15: a sample at the top level 255 is written back as 255 for every
\* signal and every deviate, by the switch of arachne.c and by
\* cal_bit_shift_prob.
TopAbsorbing ==
  (LevelsComputed /\ lab.in = 255) => (lab.sw1 = 255 /\ lab.cal1 = 255)

\* C14: the injection leaves every sample in the legal range.  The blocks
\* arachne injects into are requantized, 2-bit data: after the injection
\* every sample of the working block is in 0..255 and, the data being
\* 2-bit, in 0..3.
InjectionInRange ==
  (prog = "arachne" /\ pc = "copyout") =>
    \A i \in Offsets : raw.bytes[i] \in 0 .. 255 /\ raw.bytes[i] \in 0 .. 3

\* C16: with signal = 0 the injection writes the level of the cell back
\* unchanged, for every level and every deviate in [0, 1).
NoSignalNoChange ==
  (LevelsComputed /\ lab.signal1 = 0 /\ lab.pval < devOne) => lab.sw1 = lab.in

\* C17: a burst file with nnz == 0 leaves the working block as it was and
\* ends nothing: the process keeps running, the next burst of the iteration
\* gets its turn (or, after the last burst, the block goes to the output
\* ring), and the iteration publishes its block.
EmptyBurstSkipped ==
  [][/\ (pc = "inject" /\ idx < nfrbs /\ nnz(frbs[idx + 1]) = 0 /\ UNCHANGED prodPc) =>
          /\ raw' = raw
          /\ exitcode' = -1 /\ keep' = 1
          /\ IF idx + 1 < nfrbs
             THEN pc' = "inject" /\ idx' = idx + 1
             ELSE pc' = "copyout"
     /\ (pc = "advwrite" /\ pc' = "loop" /\ \E i \in 1 .. nfrbs : nnz(frbs[i]) = 0) =>
          /\ Len(pubLog) = iterStart.npub + 1
          /\ LastPub.data = raw]_vars

\* An iteration whose first burst file was empty has published a block in
\* which the burst that followed changed a sample.
EmptyBurstWitness ==
  /\ IterationDone /\ prog = "arachne"
  /\ nfrbs = 2 /\ nnz(frbs[1]) = 0 /\ nnz(frbs[2]) > 0
  /\ copied.id = 0
  /\ LastPub.data.bytes # Requantize(Block(0).bytes)
  /\ LastPub.data.bytes[(BurstCell % BLKSIZE) + 1] =
       Requantize(Block(0).bytes)[(BurstCell % BLKSIZE) + 1] + 10

\* C18: for a fixed level and a fixed deviate, a larger signal never gives
\* a lower output level (signal1 <= signal2 in every state), in the switch
\* of arachne.c and in cal_bit_shift_prob.
MonotoneInSignal ==
  LevelsComputed => (lab.sw1 <= lab.sw2 /\ lab.cal1 <= lab.cal2)

\* C19: a sample at level 0 with signal = 1000 (65009 half levels) and the
\* deviate 0.5 comes out of the switch at level 254 or 255.
Saturates ==
  (LevelsComputed /\ lab.in = 0 /\ lab.signal1 = 65009 /\ 2 * lab.pval = devOne) =>
    lab.sw1 \in {254, 255}

AppliedOnce == lab.kind = "group" /\ lab.st # "in"

\* C20 as stated: the 2-bit value derived from the input byte at position j
\* is stored at position j of the output group.
OrderPreserved ==
  AppliedOnce => \A j \in 1 .. 4 : lab.once[j] = Sample(lab.g[j])

\* C20: the requantizer reverses the order within each 4-byte group: the
\* 2-bit value derived from the input byte at position j (its bits 5 and 4)
\* is stored at position 3 - j of the output group (positions counted from
\* 0; the tuples of the model count from 1).
OrderReversed ==
  AppliedOnce => \A j \in 1 .. 4 : lab.once[5 - j] = Sample(lab.g[j])

\* A group whose four bytes give four different values has been requantized.
OrderReversedWitness ==
  /\ AppliedOnce
  /\ lab.g = <<0, 16, 37, 48>>
  /\ lab.once = <<3, 2, 1, 0>>

ClipComputed == lab.kind = "clip" /\ lab.st = "minmax"

\* C21: for lo <= hi, clip(x, lo, hi) is x when lo <= x < hi, lo when
\* x < lo and hi when x >= hi; min is the lesser and max the greater of
\* its two arguments.
ClipExclusive ==
  ClipComputed =>
    /\ lab.lo <= lab.hi =>
         /\ (lab.lo <= lab.x /\ lab.x < lab.hi) => lab.clipped = lab.x
         /\ lab.x < lab.lo => lab.clipped = lab.lo
         /\ lab.x >= lab.hi => lab.clipped = lab.hi
    /\ lab.lesser \in {lab.lo, lab.hi} /\ lab.lesser <= lab.lo /\ lab.lesser <= lab.hi
    /\ lab.greater \in {lab.lo, lab.hi} /\ lab.greater >= lab.lo /\ lab.greater >= lab.hi

\* The three functions were applied to x at the upper bound of a proper
\* interval, whose bounds min and max tell apart.
ClipExclusiveWitness ==
  /\ ClipComputed
  /\ lab.lo < lab.hi /\ lab.x = lab.hi
  /\ lab.clipped = lab.hi /\ lab.lesser = lab.lo /\ lab.greater = lab.hi


\* C22: the read cursor agrees with the logical block number at every loop
\* boundary, realignment steps overtaken by the producer included.
ReadCursorUnderRace ==
  pc = "loop" => recNumRead = currentReadBlock % MAXBLKS


CellsDone == lab.kind = "cells" /\ lab.st = "done"

\* C23: after the loop over the cells of a burst the samples that changed
\* are those addressed by a cell with block_start <= I < block_end; cells
\* outside the window change nothing and a cell before block_start does
\* not keep a later cell of the window from being injected.
CellsInWindowInjected ==
  CellsDone =>
    \A p \in 1 .. BLKSIZE :
      (lab.bytes[p] # CellBefore) <=>
        \E i \in 1 .. Len(lab.cells) :
          /\ lab.blk * BLKSIZE <= lab.cells[i].I
          /\ lab.cells[i].I < (lab.blk + 1) * BLKSIZE
          /\ (lab.cells[i].I % BLKSIZE) + 1 = p




\* C24: over a run the generator is seeded at most once, by the first
\* draw, and once a deviate has been drawn the seed holds the positive
\* sentinel.
SeededOnce ==
  lab.kind = "seed" =>
    /\ lab.seedings <= 1
    /\ lab.draws > 0 => (lab.seedings = 1 /\ (lab.st = "turn" => lab.seed > 0))


ScanLeft == lab.kind = "scan" /\ lab.st = "left"

\* C25: when some m of 1 .. 255 - in is accepted, the loop leaves
\* out = in + m for the greatest accepted m, and it assigns out once: the
\* first accepted m ends the loop and no later m replaces it.
LargestAcceptedWins ==
  lab.kind = "scan" =>
    /\ lab.assigns <= 1
    /\ (lab.st = "left" /\ Accepted(lab.in, lab.signal, lab.pval, 255 - lab.in) # {}) =>
         /\ lab.out.set
         /\ lab.out.out - lab.in \in Accepted(lab.in, lab.signal, lab.pval, 255 - lab.in)
         /\ \A n \in Accepted(lab.in, lab.signal, lab.pval, 255 - lab.in) :
              n <= lab.out.out - lab.in

\* The loop was left with an m accepted while a smaller m is accepted too.
LargestAcceptedWitness ==
  /\ ScanLeft
  /\ lab.out.set
  /\ \E n \in Accepted(lab.in, lab.signal, lab.pval, 255 - lab.in) :
       n < lab.out.out - lab.in


\* C26: the level written back is never below the level of the cell, for
\* every level, signal and deviate, by the switch of arachne.c and by
\* cal_bit_shift_prob.
NeverLowers ==
  LevelsComputed =>
    /\ lab.sw1 >= lab.in /\ lab.sw2 >= lab.in
    /\ lab.cal1 >= lab.in /\ lab.cal2 >= lab.in


PairDone == lab.kind = "pair" /\ lab.st = "out"

\* C27 as stated: the requantized group depends only on bits 7:6 of each
\* input byte, and each value written is the bits 7:6 value of an input
\* byte of the group.
ReadsTopTwoBits ==
  PairDone =>
    /\ (\A j \in 1 .. 4 : lab.g[j] \div 64 = lab.h[j] \div 64) => lab.outg = lab.outh
    /\ \A j \in 1 .. 4 : \E k \in 1 .. 4 : lab.outg[j] = lab.g[k] \div 64

\* C27: the requantized group depends only on bits 5:4 of each input byte:
\* two groups that agree on bits 5:4 of every byte give the same group,
\* and each value written is the bits 5:4 value of an input byte of the
\* group.
ReadsBitsFiveFour ==
  PairDone =>
    /\ (\A j \in 1 .. 4 : (lab.g[j] \div 16) % 4 = (lab.h[j] \div 16) % 4) =>
         lab.outg = lab.outh
    /\ \A j \in 1 .. 4 : \E k \in 1 .. 4 : lab.outg[j] = (lab.g[k] \div 16) % 4

\* Two groups that differ in bits 7:6 of every byte and agree on bits 5:4
\* were requantized to the same group, which is not all zero.
ReadsBitsFiveFourWitness ==
  /\ PairDone
  /\ \A j \in 1 .. 4 : lab.g[j] \div 64 # lab.h[j] \div 64
  /\ \A j \in 1 .. 4 : (lab.g[j] \div 16) % 4 = (lab.h[j] \div 16) % 4
  /\ lab.outg = lab.outh
  /\ lab.outg # <<0, 0, 0, 0>>


\* C28: when the requantization loop has run over the working block, every
\* byte of the block holds a value in 0 .. 3.
RequantizedRange ==
  (prog = "arachne" /\ pc = "inject" /\ idx = 0) =>
    \A i \in Offsets : raw.bytes[i] \in 0 .. 3

\* The loop has run over a block copied from a slot whose bytes are all
\* above 3, and has left more than one value behind.
RequantizedRangeWitness ==
  /\ prog = "arachne" /\ pc = "inject" /\ idx = 0
  /\ \A i \in Offsets : inData[copied.rec].bytes[i] > 3
  /\ \E i, j \in Offsets : raw.bytes[i] # raw.bytes[j]
  /\ \A i \in Offsets : raw.bytes[i] \in 0 .. 3


\* C29: an iteration of arachne goes from the copy-in to the
\* requantization, the injection, the copy-out and the advance of the
\* cursors, in this order; with no burst given and no conversion asked
\* for, the block published is the block read.
PipelineOrder ==
  [][prog = "arachne" =>
       /\ (pc = "copyin" /\ pc' # pc) => pc' = "requant"
       /\ (pc = "requant" /\ pc' # pc) => pc' = "inject"
       /\ (pc = "inject" /\ pc' # pc) => pc' = "copyout"
       /\ (pc = "copyout" /\ pc' # pc) => pc' = "advread"
       /\ (pc = "advread" /\ pc' # pc) => pc' = "pubrec"
       /\ (pc = "pubblk" /\ pc' # pc /\ nfrbs = 0 /\ copied.id >= 0) =>
            outData[copied.outslot].bytes = Payload(copied.id)]_vars


\* C30: while arachne works on a block, the window [blkbeg, blkend) of the
\* injection is that of the block copied in, b * BLKSIZE up to
\* (b + 1) * BLKSIZE for the logical number b of the block the copy took
\* from the input ring, also in an iteration that realigned the cursor.
WindowOfBlockRead ==
  (prog = "arachne" /\ pc \in {"requant", "inject"}
     /\ copied.id >= 0 /\ copied.id = copied.blk) =>
    /\ blkbeg = copied.id * BLKSIZE
    /\ blkend = (copied.id + 1) * BLKSIZE


\* C31: a reader of the output ring that finds curr_blk = n finds the slot
\* of block n - 1 written in full, and curr_rec is never behind curr_blk:
\* it names the slot after that of block n - 1, or one further while the
\* next block is being announced.
PublishAfterWrite ==
  lab.kind = "out" =>
    /\ lab.curr_blk >= 1 =>
         lab.data[(lab.curr_blk - 1) % MAXBLKS] = [id |-> lab.curr_blk - 1, n |-> BLKSIZE]
    /\ lab.curr_rec = (lab.curr_blk + (IF lab.st = "blk" THEN 1 ELSE 0)) % MAXBLKS

\* The ring has gone round: block 16 is being written, partly, into the
\* slot block 0 was published in, while block 15 stands whole.
PublishAfterWriteWitness ==
  /\ lab.kind = "out" /\ lab.st = "memcpy"
  /\ lab.curr_blk = MAXBLKS
  /\ lab.data[0].id = MAXBLKS /\ lab.data[0].n \in 1 .. (BLKSIZE - 1)
  /\ lab.data[MAXBLKS - 1] = [id |-> MAXBLKS - 1, n |-> BLKSIZE]


\* C32: when the bridge is about to copy slot recNumRead of the input
\* ring, that slot is not the producer's write slot curr_rec and holds the
\* logical block currentReadBlock, wherever the producer has got to since
\* the lag check.
CopySlotNotWriteSlot ==
  (pc = "copyin" /\ ~racySnap) =>
    /\ recNumRead # inCurrRec
    /\ inData[recNumRead].id = currentReadBlock


\* C33: the producer's block counter never going down, the read cursor is
\* never ahead of it at an iteration boundary, and no step of the bridge
\* in the main loop, a realignment included, moves currentReadBlock down.
NeverOvertakes ==
  [][/\ pc' = "loop" => currentReadBlock' <= inCurrBlk'
     /\ pc # "start" => currentReadBlock' >= currentReadBlock]_vars

\* An iteration that realigned has skipped blocks and ends level with the
\* producer.
NeverOvertakesWitness ==
  /\ pc = "loop" /\ snapped
  /\ iterStart.blk >= 1
  /\ currentReadBlock > iterStart.blk + 1
  /\ currentReadBlock = inCurrBlk


\* The bridge is in its main loop.
InMainLoop == pc \notin {"start", "exited", "off"}

StopWhileIdle == (keep = 0) ~> (pc = "exited" /\ exitcode = 2)

\* The process has ended on SIGINT out of the wait loop, where it had
\* polled at least once for a block the producer did not have.
StopWhileIdleWitness ==
  /\ pc = "exited" /\ exitcode = 2 /\ keep = 0
  /\ exitAt = "wait" /\ flag = 1
  /\ inCurrBlk = currentReadBlock
  /\ prodPc = "idle"


\* C36: when the loop over the burst files is done and the block goes to
\* the output ring, every burst file opened for the block is closed and
\* every array freed, after any number of iterations and also for files
\* with nnz == 0.
BurstFilesClosed ==
  (lab.kind = "files" /\ lab.st = "top" /\ lab.idx \in {0, Len(lab.nnzs)}) =>
    (lab.open = 0 /\ lab.arrays = 0)


\* C37: when no m of 1 .. 255 - in is accepted (for in = 255 there is no m
\* at all), the switch of arachne.c writes the level in of the cell back.
DefaultOutputLevel ==
  (LevelsComputed /\ Accepted(lab.in, lab.signal1, lab.pval, 255 - lab.in) = {}) =>
    lab.sw1 = lab.in


\* C38: what weave writes to the output slot in an iteration is, byte for
\* byte, the block it copied from slot recNumRead of the input ring in
\* that iteration, whatever earlier iterations had in raw.
PassThrough ==
  (prog = "weave" /\ pc \in {"pubrec", "pubblk", "advwrite"}) =>
    /\ copied.outslot \in Slots
    /\ outData[copied.outslot] = raw
    /\ outData[copied.outslot] = (IF copied.id >= 0 THEN Block(copied.id) ELSE NoBlock)

\* weave has copied out a block in a later iteration, different from the
\* block it published before.
PassThroughWitness ==
  /\ prog = "weave" /\ pc = "pubrec"
  /\ Len(pubLog) >= 2
  /\ copied.id >= 0
  /\ outData[copied.outslot] = Block(copied.id)
  /\ pubLog[Len(pubLog)].data.bytes # outData[copied.outslot].bytes


\* C39: arachne and weave move their cursors alike.  At the end of an
\* iteration of either program the cursors (recNumRead, currentReadBlock,
\* recNumWrite, curr_rec and curr_blk of the output ring) and the slot read
\* are the same function of the cursors at the start of the iteration and
\* of the producer's cursors the iteration saw; the function does not
\* mention the program, so the two go through the same sequences when they
\* see the same producer.
VariantsAgree ==
  IterationDone =>
    /\ recNumRead = NextRec(copied.rec)
    /\ currentReadBlock = NextBlk(copied.blk)
    /\ copied.outslot = iterStart.outrec
    /\ recNumWrite = NextRec(iterStart.outrec)
    /\ outCurrRec = NextRec(iterStart.outrec)
    /\ outCurrBlk = NextBlk(iterStart.outblk)
    /\ ~snapped => (copied.rec = iterStart.rec /\ copied.blk = iterStart.blk)
    /\ ~prodMoved =>
         /\ snapped <=> LagTooBig(inCurrBlk, iterStart.blk)
         /\ snapped => (copied.rec = SnapRec(inCurrRec) /\ copied.blk = SnapBlk(inCurrBlk))

\* weave has ended an iteration that realigned, after an iteration that
\* did not, the producer standing still since the lag check.
VariantsAgreeWitness ==
  /\ prog = "weave" /\ IterationDone
  /\ snapped /\ ~prodMoved
  /\ Len(pubLog) >= 2
  /\ iterStart.blk >= 1
  /\ copied.blk > iterStart.blk

====
